---------------------------- MODULE Spec2Model ----------------------------
(***************************************************************************)
(* Model of the Viltrum Fitness client scripts:                            *)
(*   - src/js/ajax-navigation.js : the fetch-based navigation pipeline     *)
(*   - src/unnamed/part_001      : workout history, favorites and weights  *)
(*                                 kept in localStorage                    *)
(* Strings are TLA+ strings, i.e. sequences of characters: Len, \o and     *)
(* SubSeq act on them character by character, so startsWith, includes,     *)
(* endsWith and replace are modelled by what they do.                      *)
(***************************************************************************)
EXTENDS Integers, Sequences, FiniteSets, Bags, TLC

VARIABLES
  \* ---- ajax-navigation.js: the module and the browser around it
  isNavigating,   \* line 14: the navigation lock
  navs,           \* the navigateAjax invocations suspended at an await
  doc,            \* document.title / body.innerHTML / body.className
  hist,           \* the session history: entries [state, title, url, by]
  hidx,           \* index of the current history entry
  pendingNav,     \* a full browser navigation that has been started
  alive,          \* the tab still shows a page of the application
  last,           \* what the most recent handler did (observation only)
  \* ---- shouldUseAjax applied to one input
  ajaxHref, ajaxDone, ajaxResult,
  \* ---- part_001: favorites
  favoritesItem,  \* localStorage['viltrum_favorites']
  lastToggle,     \* the most recent toggleFavorite call and what it returned
  prevToggle,     \* the toggleFavorite call before that one
  \* ---- part_001: workout history and exercise weights
  historyItem,    \* localStorage['viltrum_workout_history']
  weightsItem,    \* localStorage['viltrum_exercise_weights']
  loggedUser,     \* localStorage['loggedUser'] ("" : not logged in)
  syncs,          \* the saveWeights requests in flight, with their payloads
  weightsSynced,  \* localStorage['viltrum_weights_last_sync'] has been written
  added,          \* entries stored since the history was last empty
  \* ---- part_001: the weights kept in step with the cloud
  reqs,           \* the bag of saveWeights / getWeights requests in flight
  lastCall,       \* the most recent call that returned, and what it returned
  cloud,          \* the weights object the server stores for the user
  resps,          \* the bag of responses the server has sent, not yet received
  latest,         \* per exercise, the weight of the latest updateExerciseWeights
  \* ---- part_001: the read accessors
  lastRead,       \* the most recent read of the store and what it gave
  \* ---- part_000: the transition overlay of one tab
  overlay,        \* the element #nav-transition-overlay: in the document? active?
  readyState,     \* how far the load of the current document has come
  hideListeners,  \* lines 100-137 have run: wrappers and hide listeners exist
  timers,         \* the pending setTimeout hide callbacks, per signal
  leaving,        \* the browser has started a navigation away from the document
  lastOverlay     \* the most recent showNavOverlay / hideNavOverlay call

navVars   == <<isNavigating, navs, doc, hist, hidx, pendingNav, alive, last>>
ajaxVars  == <<ajaxHref, ajaxDone, ajaxResult>>
favVars   == <<favoritesItem, lastToggle, prevToggle>>
histVars  == <<historyItem, weightsItem, loggedUser, syncs, weightsSynced, added>>
storeVars == <<favVars, histVars>>
syncVars  == <<reqs, lastCall>>
readVars  == <<lastRead>>
overlayVars == <<overlay, readyState, hideListeners, timers, leaving, lastOverlay>>
cloudVars == <<cloud, resps, latest>>
restVars  == <<syncVars, readVars, overlayVars, cloudVars>>
vars      == <<navVars, ajaxVars, storeVars, restVars>>

---------------------------------------------------------------------------
(* String.prototype helpers, character by character.                       *)

\* s.startsWith(p)
StartsWith(s, p) == Len(p) <= Len(s) /\ SubSeq(s, 1, Len(p)) = p

\* s.endsWith(p)
EndsWith(s, p) == Len(p) <= Len(s) /\ SubSeq(s, Len(s) - Len(p) + 1, Len(s)) = p

\* s.indexOf(p), 1-based; 0 when p does not occur
IndexOf(s, p) ==
  LET hits == { i \in 1..(Len(s) - Len(p) + 1) : SubSeq(s, i, i + Len(p) - 1) = p }
  IN  IF hits = {} THEN 0 ELSE CHOOSE i \in hits : \A j \in hits : i <= j

\* s.includes(p)
Includes(s, p) == IndexOf(s, p) > 0

\* s.replace(p, r) with a string pattern: the first occurrence only
Replace(s, p, r) ==
  LET i == IndexOf(s, p)
  IN  IF i = 0 THEN s
      ELSE SubSeq(s, 1, i - 1) \o r \o SubSeq(s, i + Len(p), Len(s))

---------------------------------------------------------------------------
(* The page the scripts run on.                                            *)

\* window.location.host and window.location.origin of the application
LocationHost   == "v.it"
LocationOrigin == "https://v.it"

---------------------------------------------------------------------------
(* ajax-navigation.js: eligibility                                         *)

AJAX_PAGES ==
  { "/index.html", "/pages/dashboard.html", "/pages/workout.html",
    "/pages/nutrition.html", "/pages/profile.html",
    "/pages/workout-completion.html",
    "index.html", "pages/dashboard.html", "pages/workout.html",
    "pages/nutrition.html", "pages/profile.html",
    "pages/workout-completion.html",
    "dashboard.html", "workout.html", "nutrition.html", "profile.html",
    "workout-completion.html", "../index.html",
    "/", "./", "../" }

\* The auth-related markers tested at lines 65-69
AuthMarkers == { "access_token", "refresh_token", "type=", "token_hash", "code=" }

\* Lines 65-69 with the token_hash test left out
AuthMarkersShort == { "access_token", "refresh_token", "type=", "code=" }

\* The prefixes tested at lines 56-59
SkippedPrefixes == { "#", "javascript:", "mailto:", "tel:" }

\* shouldUseAjax with one auth marker forgotten
shouldUseAjaxShort(href) ==
  IF href = "" THEN FALSE
  ELSE IF StartsWith(href, "http") /\ ~Includes(href, LocationHost) THEN FALSE
  ELSE IF \E p \in SkippedPrefixes : StartsWith(href, p) THEN FALSE
  ELSE IF Includes(href, "?") /\ (\E m \in AuthMarkersShort : Includes(href, m)) THEN FALSE
  ELSE LET normalizedHref == Replace(href, LocationOrigin, "")
       IN  \E page \in AJAX_PAGES : EndsWith(normalizedHref, page) \/ normalizedHref = page

\* shouldUseAjax(href), lines 47-77.  A null href (no attribute) is "".
shouldUseAjax(href) ==
  IF href = "" THEN FALSE
  ELSE IF StartsWith(href, "http") /\ ~Includes(href, LocationHost) THEN FALSE
  ELSE IF \E p \in SkippedPrefixes : StartsWith(href, p) THEN FALSE
  ELSE IF Includes(href, "?") /\ (\E m \in AuthMarkers : Includes(href, m)) THEN FALSE
  ELSE LET normalizedHref == Replace(href, LocationOrigin, "")
       IN  \E page \in AJAX_PAGES : EndsWith(normalizedHref, page) \/ normalizedHref = page

---------------------------------------------------------------------------
(* The browser: URL resolution and the pages the server sends.             *)

\* s.lastIndexOf(p), 1-based; 0 when p does not occur
LastIndexOf(s, p) ==
  LET hits == { i \in 1..(Len(s) - Len(p) + 1) : SubSeq(s, i, i + Len(p) - 1) = p }
  IN  IF hits = {} THEN 0 ELSE CHOOSE i \in hits : \A j \in hits : i >= j

StripFragment(u) ==
  LET i == IndexOf(u, "#") IN IF i = 0 THEN u ELSE SubSeq(u, 1, i - 1)

\* The directory part of an absolute URL, with its final "/"
DirOf(u) == LET b == StripFragment(u) IN SubSeq(b, 1, LastIndexOf(b, "/"))

\* ".." applied to a directory; the root is its own parent
ParentDir(d) ==
  IF d = LocationOrigin \o "/" THEN d
  ELSE LET t == SubSeq(d, 1, Len(d) - 1) IN SubSeq(t, 1, LastIndexOf(t, "/"))

RECURSIVE ResolvePath(_, _)
ResolvePath(dir, rel) ==
  IF StartsWith(rel, "../") THEN ResolvePath(ParentDir(dir), SubSeq(rel, 4, Len(rel)))
  ELSE IF StartsWith(rel, "./") THEN ResolvePath(dir, SubSeq(rel, 3, Len(rel)))
  ELSE dir \o rel

\* The URL parser applied to href against the document's URL
Resolve(base, href) ==
  IF href = "" THEN StripFragment(base)
  ELSE IF Includes(href, "://") THEN href
  ELSE IF StartsWith(href, "#") THEN StripFragment(base) \o href
  ELSE IF StartsWith(href, "/") THEN LocationOrigin \o href
  ELSE ResolvePath(DirOf(base), href)

SameOrigin(u) == StartsWith(u, LocationOrigin \o "/")

IndexUrl == "https://v.it/index.html"
DashUrl  == "https://v.it/pages/dashboard.html"
ExtUrl   == "https://x.com/v.it/index.html"

\* The documents the servers send: title, body class, body markup and the
\* script elements of the page in document order (src = "" : inline)
Site ==
  [ u \in {IndexUrl, DashUrl, ExtUrl} |->
      CASE u = IndexUrl ->
             [ title |-> "Home", bodyClass |-> "home", body |-> "<home>",
               scripts |-> << [src |-> "js/viewport.js", text |-> ""],
                              [src |-> "js/ajax-navigation.js", text |-> ""],
                              [src |-> "", text |-> "initHome()"] >> ]
        [] u = DashUrl ->
             [ title |-> "Dashboard", bodyClass |-> "dash", body |-> "<dash>",
               scripts |-> << [src |-> "", text |-> "loadStats()"],
                              [src |-> "../js/ajax-navigation.js", text |-> ""],
                              [src |-> "", text |-> "drawChart()"] >> ]
        [] OTHER ->
             [ title |-> "Partner", bodyClass |-> "", body |-> "<partner>",
               scripts |-> << [src |-> "", text |-> "track()"] >> ] ]

\* The pages of the application: they load ajax-navigation.js
AppPages == { IndexUrl, DashUrl }

\* What a full load of u shows when u is not a page of Site
NotFoundDoc == [title |-> "404", body |-> "<not found>", bodyClass |-> ""]

DocOf(u) ==
  IF StripFragment(u) \in DOMAIN Site
  THEN LET pg == Site[StripFragment(u)]
       IN  [title |-> pg.title, body |-> pg.body, bodyClass |-> pg.bodyClass]
  ELSE NotFoundDoc

\* The href attributes of the links in each page's body ("" : a link
\* without href)
LinksOf(body) ==
  CASE body = "<home>" -> { "pages/dashboard.html", "#top", ExtUrl }
    [] body = "<dash>" -> { "../index.html", "" }
    [] OTHER -> {}

ClickHrefs == { "", "pages/dashboard.html", "../index.html", "#top", ExtUrl }

\* The hrefs other scripts pass to window.ajaxNavigate
ApiHrefs == { "../index.html" }

\* The URLs the session can meet: what the hrefs resolve to, from the
\* start page on
Reach(U) == U \cup { Resolve(u, h) : u \in U, h \in ClickHrefs \cup ApiHrefs }

Urls == Reach(Reach(Reach({IndexUrl})))

\* Resolve, the fragment test, the page without its fragment, the origin
\* test and the document of a full load, tabulated over these URLs
ResolveTable == [u \in Urls |-> [h \in ClickHrefs \cup ApiHrefs \cup Urls |-> Resolve(u, h)]]

UrlInfo ==
  [u \in Urls |-> [page |-> StripFragment(u), fragment |-> Includes(u, "#"),
                   sameOrigin |-> SameOrigin(u), doc |-> DocOf(u)]]

\* resolveUrl(href), lines 82-86, in a document whose URL is base
resolveUrl(base, href) == ResolveTable[base][href]

---------------------------------------------------------------------------
(* The session history and full navigations.  hist holds the entries of    *)
(* the current document (those a back or forward step reaches without      *)
(* loading another document): by says who wrote the entry last, the        *)
(* browser or history.pushState / replaceState of the module.              *)

\* Number of entries the browser keeps in the session history
MaxHist == 2

location == hist[hidx].url

NoPending == [kind |-> "none", url |-> ""]

\* A new entry after position i: the entries after i are dropped, and the
\* oldest entry goes when the browser's limit is passed
PushEntry(h, i, e) ==
  LET t == Append(SubSeq(h, 1, i), e)
  IN  IF Len(t) > MaxHist THEN Tail(t) ELSE t

\* The browser is told to go to the absolute URL u (a link followed, or
\* location.href set).  A URL that differs from the current one by its
\* fragment only is a same-document navigation: a new entry with no state.
\* Anything else starts a full navigation, which replaces a pending one.
\* Browsers differ on whether the new fragment entry comes with a popstate
\* event (pop): its state is null, so handlePopState (lines 232-239) reloads.
BrowserNavigate(h, i, pend, u, pop) ==
  IF UrlInfo[u].fragment /\ UrlInfo[u].page = UrlInfo[h[i].url].page
  THEN IF u = h[i].url
       THEN [hist |-> h, hidx |-> i, pendingNav |-> pend]
       ELSE LET h1 == PushEntry(h, i, [state |-> "null", title |-> "", url |-> u,
                                      by |-> "browser"])
            IN  [hist |-> h1, hidx |-> Len(h1),
                 pendingNav |-> IF pop THEN [kind |-> "reload", url |-> ""] ELSE pend]
  ELSE [hist |-> h, hidx |-> i, pendingNav |-> [kind |-> "assign", url |-> u]]

---------------------------------------------------------------------------
(* ajax-navigation.js: the pipeline                                        *)

\* What a handler did: the href of a navigateAjax call that got past the
\* lock; for a click, shouldUseAjax(href), whether a modifier key was held
\* or the link has target=_blank (newContext), whether the default action
\* was prevented and propagation stopped, whether navigateAjax was called and whether the call got
\* past the lock, and the href attribute of the link (clicked); for a popstate, whether the entry carries the marker and
\* whether location.reload() was called; for the continuation of
\* navigateAjax, how it ended, the value given to window.location.href, and
\* the steps it took in order.
NoEvent ==
  [ kind |-> "none", href |-> "", eligible |-> FALSE, newContext |-> FALSE,
    marked |-> FALSE, prevented |-> FALSE, stopped |-> FALSE, called |-> FALSE,
    accepted |-> FALSE, clicked |-> "",
    reloaded |-> FALSE, outcome |-> "", locationSet |-> "",
    pushed |-> FALSE, swapped |-> FALSE, steps |-> <<>> ]

\* parsePageContent(html), lines 91-106
parsePageContent(html) ==
  LET IsInline(sc)   == sc.src = ""
      IsExternal(sc) == sc.src # "" /\ ~Includes(sc.src, "ajax-navigation.js")
      Texts(q) == [k \in 1..Len(q) |-> q[k].text]
      Srcs(q)  == [k \in 1..Len(q) |-> q[k].src]
  IN  [ title |-> html.title,
        body |-> html.body,
        bodyClasses |-> html.bodyClass,
        scripts |-> Texts(SelectSeq(html.scripts, IsInline)),
        externalScripts |-> Srcs(SelectSeq(html.scripts, IsExternal)) ]

\* The fetched pages, parsed
Parsed == [u \in DOMAIN Site |-> parsePageContent(Site[u])]

\* The positions of the inline scripts of the pages
ScriptIndexes == UNION { 1..Len(Parsed[u].scripts) : u \in DOMAIN Site }

\* navigateAjax without the test of line 152
navigateAjaxCallUnguarded(href, pushState, loc) ==
  [ isNavigating |-> TRUE,
    navs |-> Append(navs, [href |-> href, url |-> resolveUrl(loc, href),
                           push |-> pushState, pc |-> "fetch"]) ]

\* navigateAjax(href, pushState) up to its first await, lines 151-166:
\* the guard, the lock, resolveUrl and the fetch that is issued.  loc is the
\* document's URL at the time of the call.
navigateAjaxCall(href, pushState, loc) ==
  IF isNavigating
  THEN [isNavigating |-> isNavigating, navs |-> navs]
  ELSE [ isNavigating |-> TRUE,
         navs |-> Append(navs, [href |-> href, url |-> resolveUrl(loc, href),
                                push |-> pushState, pc |-> "fetch"]) ]

RemoveAt(q, i) == SubSeq(q, 1, i - 1) \o SubSeq(q, i + 1, Len(q))

\* The catch block setting the location to the resolved URL
FallbackTargetResolved(nav) == nav.url

\* The value the catch block of lines 193-196 assigns to window.location.href
FallbackTarget(nav) == nav.href

\* A finally block that leaves the lock as it is
ReleasedLockKept == isNavigating

\* The value the finally block of lines 197-199 gives the lock
ReleasedLock == FALSE

\* The catch and finally blocks, lines 193-199, run on history h at index i
\* with document d: location.href is set, the lock is released.
CatchFinally(i0, nav, h, i, d, ev, pop) ==
  LET tgt == FallbackTarget(nav)
      b   == BrowserNavigate(h, i, pendingNav, resolveUrl(h[i].url, tgt), pop)
  IN  /\ pop => b.hist # h
      /\ doc' = d
      /\ hist' = b.hist
      /\ hidx' = b.hidx
      /\ pendingNav' = b.pendingNav
      /\ navs' = RemoveAt(navs, i0)
      /\ isNavigating' = ReleasedLock
      /\ last' = [ev EXCEPT !.locationSet = tgt,
                            !.reloaded = pop,
                            !.steps = Append(Append(ev.steps, "fallback"), "release")]
      /\ UNCHANGED alive

\* The response of the fetch arrives, lines 160-172: a network error or a
\* status that is not ok goes to the catch block, otherwise the body is read.
FetchSettle(i, outcome, pop) ==
  /\ alive
  /\ i \in 1..Len(navs)
  /\ navs[i].pc = "fetch"
  /\ outcome \in {"ok", "notok", "neterr"}
  /\ outcome = "ok" => UrlInfo[navs[i].url].page \in DOMAIN Site
  /\ LET nav == navs[i]
         ev  == [NoEvent EXCEPT !.kind = "fetch", !.outcome = outcome,
                                !.steps = <<"fetch">>]
     IN  IF outcome = "ok"
         THEN /\ ~pop
              /\ navs' = [navs EXCEPT ![i].pc = "text"]
              /\ last' = ev
              /\ UNCHANGED <<isNavigating, doc, hist, hidx, pendingNav, alive>>
         ELSE CatchFinally(i, nav, hist, hidx, doc, ev, pop)
  /\ UNCHANGED <<ajaxVars, restVars, storeVars>>

RECURSIVE ReplayStepsAborting(_, _, _)
\* A replay that stops at the first script that raises
ReplayStepsAborting(scripts, k, failing) ==
  IF k > Len(scripts) THEN <<>>
  ELSE IF k \in failing THEN <<"script:" \o scripts[k], "warn:" \o scripts[k]>>
  ELSE <<"script:" \o scripts[k]>> \o ReplayStepsAborting(scripts, k + 1, failing)

RECURSIVE ReplaySteps(_, _, _)
\* executeScripts, lines 111-124: every script in order; a failure is logged
ReplaySteps(scripts, k, failing) ==
  IF k > Len(scripts) THEN <<>>
  ELSE (IF k \in failing THEN <<"script:" \o scripts[k], "warn:" \o scripts[k]>>
                         ELSE <<"script:" \o scripts[k]>>)
       \o ReplaySteps(scripts, k + 1, failing)

\* The three events dispatched from the last to the first
SignalsLoadFirst == <<"signal:load", "signal:DOMContentLoaded", "signal:ajax-navigation-complete">>

\* The events reinitializeApp dispatches, lines 129-137
Signals == <<"signal:ajax-navigation-complete", "signal:DOMContentLoaded", "signal:load">>

\* The body of the response has been read (or the read failed), lines
\* 172-199: parse, swap, history push, script replay, reinitialisation.
\* failing: the inline scripts whose replay raises; dvhThrows: the viewport
\* hook updateDvhProperty exists and raises.
TextSettle(i, bodyOk, failing, dvhThrows, pop) ==
  /\ alive
  /\ i \in 1..Len(navs)
  /\ navs[i].pc = "text"
  /\ LET nav == navs[i]
         ev  == [NoEvent EXCEPT !.kind = "text"]
         pageContent == Parsed[UrlInfo[nav.url].page]
         d1  == [title |-> pageContent.title, body |-> pageContent.body,
                 bodyClass |-> pageContent.bodyClasses]
         pushThrows == nav.push /\ ~UrlInfo[nav.url].sameOrigin
         h1  == IF nav.push /\ ~pushThrows
                THEN PushEntry(hist, hidx,
                               [state |-> "ajaxNav", title |-> pageContent.title,
                                url |-> nav.url, by |-> "module"])
                ELSE hist
         i1  == IF nav.push /\ ~pushThrows THEN Len(h1) ELSE hidx
         sw  == <<"parse", "swap">>
         pu  == IF nav.push THEN <<"pushState">> ELSE <<>>
         rp  == ReplaySteps(pageContent.scripts, 1, failing)
     IN  IF ~bodyOk
         THEN /\ failing = {} /\ ~dvhThrows
              /\ CatchFinally(i, nav, hist, hidx, doc, [ev EXCEPT !.outcome = "bodyerr"], pop)
         ELSE /\ failing \subseteq 1..Len(pageContent.scripts)
              /\ IF pushThrows
                 THEN /\ failing = {} /\ ~dvhThrows
                      /\ CatchFinally(i, nav, hist, hidx, d1,
                           [ev EXCEPT !.outcome = "pushthrew", !.swapped = TRUE,
                                      !.steps = sw \o pu], pop)
                 ELSE IF dvhThrows
                 THEN CatchFinally(i, nav, h1, i1, d1,
                           [ev EXCEPT !.outcome = "reinitthrew", !.swapped = TRUE,
                                      !.pushed = nav.push,
                                      !.steps = sw \o pu \o rp \o Signals], pop)
                 ELSE /\ ~pop
                      /\ doc' = d1
                      /\ hist' = h1
                      /\ hidx' = i1
                      /\ navs' = RemoveAt(navs, i)
                      /\ isNavigating' = ReleasedLock
                      /\ last' = [ev EXCEPT !.outcome = "complete", !.swapped = TRUE,
                                      !.pushed = nav.push,
                                      !.steps = sw \o pu \o rp \o Signals \o <<"release">>]
                      /\ UNCHANGED <<pendingNav, alive>>
  /\ UNCHANGED <<ajaxVars, restVars, storeVars>>

---------------------------------------------------------------------------
(* ajax-navigation.js: the event handlers.  Once a full navigation has     *)
(* been started the page is on its way out: the model lets the responses   *)
(* in flight arrive, but no further click, history step or ajaxNavigate    *)
(* call, until the new page is loaded.                                     *)

\* handleClick returned before line 222
Passed == [prevented |-> FALSE, stopped |-> FALSE, called |-> FALSE, steps |-> <<>>]

\* Lines 222-226 in order
Handled ==
  [prevented |-> TRUE, stopped |-> TRUE, called |-> TRUE,
   steps |-> <<"preventDefault", "stopPropagation", "navigateAjax">>]

\* shouldUseAjax on the hrefs of the links
Eligible == [h \in ClickHrefs |-> shouldUseAjax(h)]

\* The modifier keys held during a click: none, or one of the four
KeySets == { {}, {"ctrl"}, {"shift"}, {"meta"}, {"alt"} }

\* handleClick with the tests of lines 216 and 219 left out
handleClickNoSkip(href, ctrlKey, shiftKey, metaKey, altKey, blank) ==
  IF ~Eligible[href] THEN Passed ELSE Handled

\* handleClick(e) for a click inside a link, lines 205-227: whether the
\* default action is prevented, whether propagation is stopped and whether
\* navigateAjax(href) is called
handleClick(href, ctrlKey, shiftKey, metaKey, altKey, blank) ==
  IF ~Eligible[href] THEN Passed
  ELSE IF ctrlKey \/ shiftKey \/ metaKey \/ altKey THEN Passed
  ELSE IF blank THEN Passed
  ELSE Handled

\* A click on a link: the capture listener handleClick, then the browser's
\* default action unless it was prevented.  With a modifier key or
\* target=_blank the default action opens another tab and this one stays.
Click(href, keys, blank, pop) ==
  /\ alive
  /\ pendingNav.kind = "none"
  /\ href \in LinksOf(doc.body)
  /\ LET modifier == keys # {}
         r  == handleClick(href, "ctrl" \in keys, "shift" \in keys, "meta" \in keys,
                           "alt" \in keys, blank)
         n  == IF r.called THEN navigateAjaxCall(href, TRUE, location)
                           ELSE [isNavigating |-> isNavigating, navs |-> navs]
         b  == IF r.prevented \/ href = "" \/ modifier \/ blank
               THEN [hist |-> hist, hidx |-> hidx, pendingNav |-> pendingNav]
               ELSE BrowserNavigate(hist, hidx, pendingNav, resolveUrl(location, href), pop)
     IN  /\ pop => b.hist # hist
         /\ isNavigating' = n.isNavigating
         /\ navs' = n.navs
         /\ hist' = b.hist
         /\ hidx' = b.hidx
         /\ pendingNav' = b.pendingNav
         /\ last' = [NoEvent EXCEPT !.kind = "click",
                                    !.href = IF r.called /\ ~isNavigating THEN href ELSE "",
                                    !.clicked = href,
                                    !.eligible = Eligible[href],
                                    !.newContext = (modifier \/ blank),
                                    !.prevented = r.prevented, !.stopped = r.stopped,
                                    !.called = r.called, !.steps = r.steps,
                                    !.accepted = r.called /\ ~isNavigating,
                                    !.reloaded = pop]
  /\ UNCHANGED <<doc, alive, ajaxVars, restVars, storeVars>>

\* A click outside every link: line 208 returns
ClickElsewhere ==
  /\ alive
  /\ pendingNav.kind = "none"
  /\ last' = [NoEvent EXCEPT !.kind = "click"]
  /\ UNCHANGED <<isNavigating, navs, doc, hist, hidx, pendingNav, alive, ajaxVars, restVars, storeVars>>

\* window.ajaxNavigate(href, pushState), line 283
ApiNavigate(href, pushState) ==
  /\ alive
  /\ pendingNav.kind = "none"
  /\ LET n == navigateAjaxCall(href, pushState, location)
     IN  /\ isNavigating' = n.isNavigating
         /\ navs' = n.navs
         /\ last' = [NoEvent EXCEPT !.kind = "api", !.called = TRUE,
                                    !.href = IF isNavigating THEN "" ELSE href,
                                    !.accepted = ~isNavigating]
  /\ UNCHANGED <<doc, hist, hidx, pendingNav, alive, ajaxVars, restVars, storeVars>>

\* init() marking the current entry without the marker
initStateNull == "null"

\* The state init() gives the current entry, line 270: { ajaxNav: true }
initState == "ajaxNav"

\* A page has been loaded at entry i of h: a new document and a new script
\* realm.  On a page of the application init() runs (lines 244-273) and
\* marks the current entry; any other page ends the application.
Loaded(h, i, ev) ==
  LET u   == h[i].url
      app == UrlInfo[u].page \in AppPages
      d   == UrlInfo[u].doc
  IN  /\ doc' = d
      /\ hist' = IF app
                 THEN [h EXCEPT ![i] = [state |-> initState, title |-> d.title,
                                        url |-> u, by |-> "module"]]
                 ELSE h
      /\ hidx' = i
      /\ alive' = app
      /\ isNavigating' = FALSE
      /\ navs' = <<>>
      /\ pendingNav' = NoPending
      /\ last' = ev

\* The full navigation that was started commits: location.reload() loads the
\* current entry again, anything else makes an entry for a new document.
LoadCommit ==
  /\ alive
  /\ pendingNav.kind # "none"
  /\ IF pendingNav.kind = "reload"
     THEN Loaded(hist, hidx, [NoEvent EXCEPT !.kind = "load"])
     ELSE Loaded(<< [state |-> "null", title |-> "", url |-> pendingNav.url,
                     by |-> "browser"] >>, 1, [NoEvent EXCEPT !.kind = "load"])
  /\ UNCHANGED <<ajaxVars, restVars, storeVars>>

\* handlePopState(e), lines 232-239: what it does with e.state
handlePopState(state) == IF state = "ajaxNav" THEN "navigateAjax" ELSE "reload"

\* The user goes back or forward to entry j: the browser moves to the entry
\* and fires popstate with its state.
Traverse(j) ==
  /\ alive
  /\ pendingNav.kind = "none"
  /\ j \in 1..Len(hist)
  /\ j # hidx
  /\      LET act == handlePopState(hist[j].state)
              n   == IF act = "navigateAjax"
                     THEN navigateAjaxCall(hist[j].url, FALSE, hist[j].url)
                     ELSE [isNavigating |-> isNavigating, navs |-> navs]
          IN  /\ hidx' = j
              /\ isNavigating' = n.isNavigating
              /\ navs' = n.navs
              /\ pendingNav' = IF act = "reload" THEN [kind |-> "reload", url |-> ""]
                                                 ELSE pendingNav
              /\ last' = [NoEvent EXCEPT !.kind = "popstate",
                                         !.href = IF act = "navigateAjax" /\ ~isNavigating
                                                  THEN hist[j].url ELSE "",
                                         !.marked = (hist[j].state = "ajaxNav"),
                                         !.called = (act = "navigateAjax"),
                                         !.accepted = (act = "navigateAjax" /\ ~isNavigating),
                                         !.reloaded = (act = "reload")]
              /\ UNCHANGED <<doc, hist, alive>>
  /\ UNCHANGED <<ajaxVars, restVars, storeVars>>

\* The application has been opened on its start page and init() has run
NavInit ==
  /\ isNavigating = FALSE
  /\ navs = <<>>
  /\ doc = UrlInfo[IndexUrl].doc
  /\ hist = << [state |-> initState, title |-> UrlInfo[IndexUrl].doc.title, url |-> IndexUrl,
                by |-> "module"] >>
  /\ hidx = 1
  /\ pendingNav = NoPending
  /\ alive = TRUE
  /\ last = [NoEvent EXCEPT !.kind = "load"]

\* A localStorage item that was never written: getItem gives null
AbsentItem == [kind |-> "absent", val |-> <<>>]

NoToggle == [called |-> FALSE, name |-> "", before |-> <<>>, ret |-> FALSE, wrote |-> FALSE]

\* The parts of the state a specification does not exercise
AjaxIdle == ajaxHref = "" /\ ajaxDone = FALSE /\ ajaxResult = FALSE

\* No response: the call returned before any fetch
NoResponse == [ kind |-> "none", ok |-> FALSE, text |-> "", type |-> "",
                status |-> "", hasWeights |-> FALSE, weights |-> <<>> ]

\* No call of the weights functions has returned yet
NoCall == [ fn |-> "", ret |-> "", inner |-> "", value |-> <<>>,
            fetched |-> FALSE, stamped |-> FALSE, threw |-> FALSE,
            response |-> NoResponse ]

SyncIdle == reqs = EmptyBag /\ lastCall = NoCall

\* No read accessor has been called yet
NoRead == [ fn |-> "", threw |-> FALSE, value |-> <<>>, item |-> AbsentItem,
            denied |-> FALSE ]

ReadIdle == lastRead = NoRead

\* The signals whose listeners hide the overlay, lines 118-137
HideSignals == { "pageshow", "DOMContentLoaded", "load" }

NoTimers == [ s \in HideSignals |-> 0 ]

\* Neither showNavOverlay nor hideNavOverlay has been called yet
NoOverlayCall == [ op |-> "", via |-> "", before |-> [inserted |-> FALSE, active |-> FALSE],
                   tick |-> 0 ]

OverlayIdle ==
  /\ overlay = [inserted |-> FALSE, active |-> FALSE]
  /\ readyState = "loading"
  /\ hideListeners = FALSE
  /\ timers = NoTimers
  /\ leaving = FALSE
  /\ lastOverlay = NoOverlayCall

CloudIdle == cloud = <<>> /\ resps = EmptyBag /\ latest = <<>>

RestIdle == SyncIdle /\ ReadIdle /\ OverlayIdle /\ CloudIdle

FavIdle == favoritesItem = AbsentItem /\ lastToggle = NoToggle /\ prevToggle = NoToggle

HistIdle ==
  /\ historyItem = AbsentItem /\ weightsItem = AbsentItem /\ loggedUser = ""
  /\ syncs = <<>> /\ weightsSynced = FALSE /\ added = 0

Init == NavInit /\ AjaxIdle /\ FavIdle /\ HistIdle /\ RestIdle

\* The fetch of a navigation in flight settles, in any of the ways it can
FetchSettles ==
  \E i \in 1..Len(navs), outcome \in {"ok", "notok", "neterr"}, pop \in BOOLEAN :
    FetchSettle(i, outcome, pop)

\* The body of a response is read, or the read fails
TextSettles ==
  \E i \in 1..Len(navs), bodyOk, dvhThrows, pop \in BOOLEAN, failing \in SUBSET ScriptIndexes :
    TextSettle(i, bodyOk, failing, dvhThrows, pop)

Next ==
  \/ \E href \in ClickHrefs, keys \in KeySets, blank, pop \in BOOLEAN : Click(href, keys, blank, pop)
  \/ ClickElsewhere
  \/ \E href \in ApiHrefs, pushState \in BOOLEAN : ApiNavigate(href, pushState)
  \/ \E j \in 1..MaxHist : Traverse(j)
  \/ FetchSettles
  \/ TextSettles
  \/ LoadCommit

Spec == Init /\ [][Next]_vars

\* Every fetch settles and every body read ends
FairSpec == Spec /\ WF_vars(FetchSettles) /\ WF_vars(TextSettles)

---------------------------------------------------------------------------
(* Claims about the navigation pipeline                                    *)

\* The step is a handler that called navigateAjax
CallStep == last'.kind \in {"click", "popstate", "api"} /\ last'.called

\* The entries history.pushState / replaceState of the module wrote
ModuleEntries(h) == { h[k] : k \in { m \in 1..Len(h) : h[m].by = "module" } }

\* C1: at most one AJAX navigation is in flight, and a navigateAjax call made
\* while the lock is held issues no fetch, changes neither the document nor
\* the history, sets no location and leaves the navigation in flight and
\* the lock as they were.
C1_LockExcludes ==
  /\ [](Len(navs) <= 1)
  /\ [][ (isNavigating /\ CallStep) =>
          /\ navs' = navs
          /\ isNavigating' = isNavigating
          /\ doc' = doc
          /\ hist' = hist
          /\ pendingNav' = pendingNav
          /\ last'.locationSet = ""
          /\ ~last'.accepted ]_vars

C1_Witness ==
  isNavigating /\ Len(navs) = 1 /\ last.kind = "popstate" /\ last.called /\ ~last.accepted

\* C2: every navigation attempt that ends leaves the lock released; once the
\* lock is held it is eventually released (the fetch and the body read
\* settle); and a navigateAjax call made with the lock released is accepted
\* and issues a fetch.
C2_LockReleased ==
  /\ [][ Len(navs') < Len(navs) => ~isNavigating' ]_vars
  /\ (isNavigating ~> ~isNavigating)
  /\ [][ (~isNavigating /\ CallStep) =>
          (last'.accepted /\ isNavigating' /\ Len(navs') = Len(navs) + 1) ]_vars

C2_Witness ==
  ~isNavigating /\ alive /\ last.kind = "fetch" /\ last.locationSet # ""

\* C3: when the fetch fails with a network error or a status that is not
\* ok, window.location.href is given the href navigateAjax was called with,
\* the document is not replaced, history.pushState is not called and the
\* lock ends released.
C3_FetchFailureFallsBack ==
  [][ (last'.kind = "fetch" /\ last'.outcome \in {"neterr", "notok"}) =>
        \E i \in 1..Len(navs) :
          /\ navs' = RemoveAt(navs, i)
          /\ last'.locationSet = navs[i].href
          /\ doc' = doc
          /\ ~last'.swapped
          /\ ~last'.pushed
          /\ ModuleEntries(hist') \subseteq ModuleEntries(hist)
          /\ ~isNavigating' ]_vars

C3_Witness ==
  /\ last.kind = "fetch" /\ last.outcome = "notok"
  /\ last.locationSet = "pages/dashboard.html"
  /\ pendingNav = [kind |-> "assign", url |-> DashUrl]
  /\ ~isNavigating

\* C4: every popstate whose entry carries the marker runs the pipeline for
\* the current URL without a history push, and every popstate whose entry
\* does not carry it forces a reload.
C4_PopstateAlwaysHandled ==
  [][ last'.kind = "popstate" =>
        IF last'.marked
        THEN /\ Len(navs') = Len(navs) + 1
             /\ navs'[Len(navs')].url = hist'[hidx'].url
             /\ ~navs'[Len(navs')].push
        ELSE last'.reloaded /\ pendingNav'.kind = "reload" ]_vars

\* C5: a forward navigation that completes pushes exactly one entry, tagged
\* ajaxNav, with the fetched title and the resolved URL; a replay that
\* completes pushes none; every entry the module wrote carries the marker.
C5_HistoryPush ==
  /\ [][ (last'.kind = "text" /\ last'.outcome = "complete") =>
          \E i \in 1..Len(navs) :
            /\ navs' = RemoveAt(navs, i)
            /\ IF navs[i].push
               THEN LET e == [state |-> "ajaxNav",
                              title |-> Site[StripFragment(navs[i].url)].title,
                              url |-> navs[i].url, by |-> "module"]
                        t == Append(SubSeq(hist, 1, hidx), e)
                    IN  /\ hist' = IF Len(t) > MaxHist THEN Tail(t) ELSE t
                        /\ hidx' = Len(hist')
                        /\ last'.pushed
               ELSE hist' = hist /\ hidx' = hidx /\ ~last'.pushed ]_vars
  /\ [][ \A e \in ModuleEntries(hist') : e.state = "ajaxNav" ]_vars

C5_Witness ==
  /\ last.kind = "text" /\ last.outcome = "complete" /\ last.pushed
  /\ Len(hist) = 2 /\ hidx = 2
  /\ hist[2] = [state |-> "ajaxNav", title |-> "Dashboard", url |-> DashUrl, by |-> "module"]

\* C6: a click with a modifier key held or on a target=_blank link never
\* prevents the default action and never calls navigateAjax, whatever the
\* href; an eligible click without them prevents the default action, stops
\* propagation and then calls navigateAjax with the href of the link.
C6_ClickHandling ==
  [][ last'.kind = "click" =>
        /\ last'.newContext =>
             (~last'.prevented /\ ~last'.stopped /\ ~last'.called
                /\ navs' = navs /\ isNavigating' = isNavigating)
        /\ (last'.eligible /\ ~last'.newContext) =>
             /\ last'.prevented /\ last'.stopped /\ last'.called
             /\ last'.steps = <<"preventDefault", "stopPropagation", "navigateAjax">>
             /\ pendingNav' = pendingNav /\ hist' = hist
             /\ ~isNavigating =>
                  /\ Len(navs') = Len(navs) + 1
                  /\ navs'[Len(navs')].href = last'.href
                  /\ navs'[Len(navs')].href \in LinksOf(doc.body)
                  /\ navs'[Len(navs')].push ]_vars

C6_Witness ==
  last.kind = "click" /\ last.eligible /\ last.newContext /\ ~last.prevented /\ ~last.called

---------------------------------------------------------------------------
(* shouldUseAjax as a pure function: one input href, one call.             *)

\* Pieces the input hrefs are built from
HrefPieces ==
  { "https://v.it", "https://x.com", "http", "v.it", "/", "pages/", "index.html",
    "dashboard.html", "?", "x", "#", "access_token", "refresh_token", "type=",
    "token_hash", "code=", "javascript:", "mailto:", "tel:" }

\* Number of pieces in an input href
MaxPieces == 3

RECURSIVE Concat(_)
Concat(ps) == IF ps = <<>> THEN "" ELSE Head(ps) \o Concat(Tail(ps))

HrefInputs ==
  { Concat(ps) : ps \in UNION { [1..n -> HrefPieces] : n \in 0..MaxPieces } }

InitAjax ==
  /\ NavInit /\ FavIdle /\ HistIdle /\ RestIdle
  /\ ajaxHref \in HrefInputs
  /\ ajaxDone = FALSE
  /\ ajaxResult = FALSE

\* const r = shouldUseAjax(href)
CallShouldUseAjax ==
  /\ ~ajaxDone
  /\ ajaxDone' = TRUE
  /\ ajaxResult' = shouldUseAjax(ajaxHref)
  /\ UNCHANGED <<ajaxHref, navVars, storeVars, restVars>>

NextAjax == CallShouldUseAjax

SpecAjax == InitAjax /\ [][NextAjax]_vars

\* The query string of an href: what follows the first "?" of the part
\* before the fragment
QueryString(href) ==
  LET h == IF Includes(href, "#") THEN SubSeq(href, 1, IndexOf(href, "#") - 1) ELSE href
  IN  IF Includes(h, "?") THEN SubSeq(h, IndexOf(h, "?") + 1, Len(h)) ELSE ""

HasAuthMarker(s) == \E m \in AuthMarkers : Includes(s, m)

\* An href none of the tests of lines 48-61 rejects
Internal(href) ==
  /\ href # ""
  /\ ~(StartsWith(href, "http") /\ ~Includes(href, LocationHost))
  /\ ~\E p \in SkippedPrefixes : StartsWith(href, p)

\* The href, without the origin, equals or ends with an entry of the allow-list
MatchesAllowList(href) ==
  \E page \in AJAX_PAGES : EndsWith(Replace(href, LocationOrigin, ""), page)

\* C7 as stated: shouldUseAjax is true for every internal href that matches
\* the allow-list and has no auth marker in its query string, false for
\* every href whose query string has an auth marker, and false for an empty
\* href, an http href without the current host, and the skipped prefixes.
C7_AsStated ==
  ajaxDone =>
    /\ (Internal(ajaxHref) /\ MatchesAllowList(ajaxHref)
          /\ ~HasAuthMarker(QueryString(ajaxHref))) => ajaxResult
    /\ HasAuthMarker(QueryString(ajaxHref)) => ~ajaxResult
    /\ ~Internal(ajaxHref) => ~ajaxResult

\* C7 amended: shouldUseAjax is true for every internal href that matches
\* the allow-list and, when it contains "?", has no auth marker anywhere in
\* the href (path and fragment included); it is false for every href whose
\* query string has an auth marker, and false for an empty href, an http
\* href without the current host, and the skipped prefixes.
C7_Eligibility ==
  ajaxDone =>
    /\ (Internal(ajaxHref) /\ MatchesAllowList(ajaxHref)
          /\ ~(Includes(ajaxHref, "?") /\ HasAuthMarker(ajaxHref))) => ajaxResult
    /\ HasAuthMarker(QueryString(ajaxHref)) => ~ajaxResult
    /\ ~Internal(ajaxHref) => ~ajaxResult

C7_Witness ==
  /\ ajaxDone /\ ajaxResult
  /\ Internal(ajaxHref) /\ MatchesAllowList(ajaxHref)
  /\ QueryString(ajaxHref) # "" /\ ~HasAuthMarker(ajaxHref)

---------------------------------------------------------------------------
(* part_001: favorites.  A localStorage item is absent, holds what          *)
(* JSON.stringify wrote (kind "json"), or holds text JSON.parse rejects.    *)
(* Workout names are strings, as the functions document.                    *)

WorkoutNames == { "Leg Day", "Push", "Pull" }

CorruptItem == [kind |-> "corrupt", val |-> <<>>]

\* localStorage.setItem(key, JSON.stringify(v))
JSONstringify(v) == [kind |-> "json", val |-> v]

\* The lists of distinct workout names
RECURSIVE DistinctLists(_)
DistinctLists(S) ==
  {<<>>} \cup UNION { { <<x>> \o t : t \in DistinctLists(S \ {x}) } : x \in S }

\* getFavorites(), lines 271-279: null and a parse error both give []
getFavorites(item) == IF item.kind = "json" THEN item.val ELSE <<>>

\* Array.prototype.indexOf: the first position, from 0, or -1
indexOf(list, x) ==
  IF \E k \in 1..Len(list) : list[k] = x
  THEN (CHOOSE k \in 1..Len(list) : list[k] = x /\ \A j \in 1..(k - 1) : list[j] # x) - 1
  ELSE -1

\* isFavorite(workoutName), lines 286-289
isFavorite(item, workoutName) ==
  \E k \in 1..Len(getFavorites(item)) : getFavorites(item)[k] = workoutName

\* toggleFavorite that never removes
toggleFavoriteAppend(item, workoutName, writeFails) ==
  IF writeFails THEN [item |-> item, ret |-> FALSE]
  ELSE [item |-> JSONstringify(Append(getFavorites(item), workoutName)),
        ret |-> indexOf(getFavorites(item), workoutName) = -1]

\* toggleFavorite(workoutName), lines 296-315: the item afterwards and the
\* value returned.  writeFails: localStorage.setItem throws.
toggleFavorite(item, workoutName, writeFails) ==
  LET favorites == getFavorites(item)
      index     == indexOf(favorites, workoutName)
      updated   == IF index = -1 THEN Append(favorites, workoutName)
                                 ELSE RemoveAt(favorites, index + 1)
  IN  IF writeFails THEN [item |-> item, ret |-> FALSE]
      ELSE [item |-> JSONstringify(updated), ret |-> (index = -1)]

InitFavorites ==
  /\ NavInit /\ AjaxIdle /\ HistIdle /\ RestIdle
  /\ favoritesItem \in {AbsentItem, CorruptItem}
                       \cup { JSONstringify(l) : l \in DistinctLists(WorkoutNames) }
  /\ lastToggle = NoToggle
  /\ prevToggle = NoToggle

ToggleFavorite(workoutName, writeFails) ==
  /\ LET r == toggleFavorite(favoritesItem, workoutName, writeFails)
     IN  /\ favoritesItem' = r.item
         /\ lastToggle' = [called |-> TRUE, name |-> workoutName,
                           before |-> getFavorites(favoritesItem), ret |-> r.ret,
                           wrote |-> ~writeFails]
  /\ prevToggle' = lastToggle
  /\ UNCHANGED <<navVars, ajaxVars, restVars, histVars>>

NextFavorites ==
  \E workoutName \in WorkoutNames, writeFails \in BOOLEAN : ToggleFavorite(workoutName, writeFails)

SpecFavorites == InitFavorites /\ [][NextFavorites]_vars

Elems(list) == { list[k] : k \in 1..Len(list) }

NoDuplicates(list) == \A j, k \in 1..Len(list) : list[j] = list[k] => j = k

\* C9 as stated: toggleFavorite adds an absent name and returns true, removes
\* a present name and returns false; two calls in a row with the same name
\* leave the stored list as it was; the stored list never has duplicates.
C9_AsStated ==
  lastToggle.called =>
    LET now == getFavorites(favoritesItem)
        nm  == lastToggle.name
    IN  /\ nm \notin Elems(lastToggle.before) => (nm \in Elems(now) /\ lastToggle.ret)
        /\ nm \in Elems(lastToggle.before) => (nm \notin Elems(now) /\ ~lastToggle.ret)
        /\ (prevToggle.called /\ prevToggle.name = nm) => now = prevToggle.before
        /\ NoDuplicates(now)

\* C9 amended: when the store can be written, toggleFavorite adds an absent
\* name at the end and returns true, removes a present name and returns
\* false; two such calls in a row with the same name leave the stored
\* favorites the same as a set, and the same list when the name was absent
\* or last in it; a call whose write fails leaves the stored list as it
\* was; the stored list never has duplicates.
C9_Toggle ==
  lastToggle.called =>
    LET now == getFavorites(favoritesItem)
        nm  == lastToggle.name
        b   == lastToggle.before
        pb  == prevToggle.before
    IN  /\ (lastToggle.wrote /\ nm \notin Elems(b)) => (now = Append(b, nm) /\ lastToggle.ret)
        /\ (lastToggle.wrote /\ nm \in Elems(b)) =>
             (Elems(now) = Elems(b) \ {nm} /\ ~lastToggle.ret)
        /\ ~lastToggle.wrote => now = b
        /\ (prevToggle.called /\ prevToggle.name = nm /\ prevToggle.wrote /\ lastToggle.wrote) =>
             /\ Elems(now) = Elems(pb)
             /\ (nm \notin Elems(pb) \/ pb[Len(pb)] = nm) => now = pb
        /\ NoDuplicates(now)

C9_Witness ==
  /\ lastToggle.called /\ prevToggle.called /\ lastToggle.wrote /\ prevToggle.wrote
  /\ lastToggle.name = "Leg Day" /\ prevToggle.name = "Leg Day"
  /\ prevToggle.before = <<"Leg Day", "Push">>
  /\ getFavorites(favoritesItem) = <<"Push", "Leg Day">>

\* C10: the value toggleFavorite returns is the favorite status of the name
\* right after the call, isFavorite(name), in every case.
C10_ReturnIsStatus ==
  lastToggle.called => (isFavorite(favoritesItem, lastToggle.name) = lastToggle.ret)

---------------------------------------------------------------------------
(* part_001: workout history and exercise weights.  A history entry is     *)
(* stood for by its number in the order the entries were stored; a weights *)
(* object is a function from exercise names to weights.                    *)

\* if (history.length > 100) history.splice(100), lines 192-194
HistoryCap == 100

\* Entries stored in one run
MaxAdds == 102

\* saveWeights requests in flight at once
MaxSyncs == 2

Exercises == { "squat" }

WeightValues == { "50", "60" }

\* The exerciseWeights objects passed to addWorkoutToHistory
WeightsObjects == UNION { [D -> WeightValues] : D \in SUBSET Exercises }

UserEmail == "u@v.it"

\* getWorkoutHistory(), lines 162-170: null and a parse error both give []
getWorkoutHistory(item) == IF item.kind = "json" THEN item.val ELSE <<>>

\* getExerciseWeightsLocal(), lines 325-333: null and a parse error give {}
getExerciseWeightsLocal(item) == IF item.kind = "json" THEN item.val ELSE <<>>

\* Object.assign(target, source)
ObjectAssign(target, source) ==
  [k \in DOMAIN target \cup DOMAIN source |->
     IF k \in DOMAIN source THEN source[k] ELSE target[k]]

\* The entry put at the end of the list
pushLast(history, entry) == Append(history, entry)

\* history.unshift(entry), line 189
unshift(history, entry) == <<entry>> \o history

\* lines 192-194: the list cut to its first HistoryCap entries
spliceCap(history) ==
  IF Len(history) > HistoryCap THEN SubSeq(history, 1, HistoryCap) ELSE history

InitHistory ==
  /\ NavInit /\ AjaxIdle /\ FavIdle /\ RestIdle
  /\ historyItem \in {AbsentItem, CorruptItem}
  /\ weightsItem \in {AbsentItem, CorruptItem}
  /\ loggedUser \in {"", UserEmail}
  /\ syncs = <<>>
  /\ weightsSynced = FALSE
  /\ added = 0

\* addWorkoutToHistory(workoutName, duration, exerciseWeights), lines
\* 178-208, with the synchronous part of updateExerciseWeights (358-370)
\* and of syncWeightsToCloud (35-62) it calls.  historyWriteFails and
\* weightsWriteFails: the setItem of line 196 / line 362 throws.
AddWorkoutToHistory(exerciseWeights, historyWriteFails, weightsWriteFails) ==
  /\ added < MaxAdds
  /\ LET history == spliceCap(unshift(getWorkoutHistory(historyItem), added + 1))
         weights == ObjectAssign(getExerciseWeightsLocal(weightsItem), exerciseWeights)
         update  == ~historyWriteFails /\ DOMAIN exerciseWeights # {} /\ ~weightsWriteFails
     IN  /\ weightsWriteFails => (~historyWriteFails /\ DOMAIN exerciseWeights # {})
         /\ (update /\ loggedUser # "") => Len(syncs) < MaxSyncs
         /\ historyItem' = IF historyWriteFails THEN historyItem ELSE JSONstringify(history)
         /\ added' = IF historyWriteFails THEN added ELSE added + 1
         /\ weightsItem' = IF update THEN JSONstringify(weights) ELSE weightsItem
         /\ syncs' = IF update /\ loggedUser # "" THEN Append(syncs, weights) ELSE syncs
  /\ UNCHANGED <<loggedUser, weightsSynced, navVars, ajaxVars, restVars, favVars>>

\* The response of a saveWeights request arrives, lines 62-100: a network
\* error, a status that is not ok, a JSON body with or without status
\* "success", or a body that is not JSON.
SyncSettle(i, outcome) ==
  /\ i \in 1..Len(syncs)
  /\ syncs' = RemoveAt(syncs, i)
  /\ weightsSynced' = (weightsSynced \/ outcome \in {"success", "notjson"})
  /\ UNCHANGED <<historyItem, weightsItem, loggedUser, added, navVars, ajaxVars, restVars, favVars>>

\* clearWorkoutHistory(), lines 259-261
ClearWorkoutHistory ==
  /\ historyItem' = AbsentItem
  /\ added' = 0
  /\ UNCHANGED <<weightsItem, loggedUser, syncs, weightsSynced, navVars, ajaxVars, restVars, favVars>>

NextHistory ==
  \/ \E exerciseWeights \in WeightsObjects, historyWriteFails, weightsWriteFails \in BOOLEAN :
       AddWorkoutToHistory(exerciseWeights, historyWriteFails, weightsWriteFails)
  \/ \E i \in 1..MaxSyncs, outcome \in {"neterr", "httperr", "success", "failure", "notjson"} :
       SyncSettle(i, outcome)
  \/ ClearWorkoutHistory

SpecHistory == InitHistory /\ [][NextHistory]_vars

\* C8: after n successful addWorkoutToHistory calls from an empty store the
\* stored history has min(n, 100) entries, newest first, and they are the
\* min(n, 100) entries added last; its length never exceeds 100.
C8_HistoryCapped ==
  LET stored == getWorkoutHistory(historyItem)
      n      == added
  IN  /\ Len(stored) = IF n < HistoryCap THEN n ELSE HistoryCap
      /\ \A k \in 1..Len(stored) : stored[k] = n - k + 1
      /\ Len(stored) <= HistoryCap

C8_Witness ==
  /\ added = HistoryCap + 1
  /\ historyItem.kind = "json"
  /\ Len(historyItem.val) = HistoryCap
  /\ historyItem.val[1] = HistoryCap + 1
  /\ historyItem.val[HistoryCap] = 2


---------------------------------------------------------------------------
(* part_001: the exercise weights and their copy in the cloud.             *)
(* updateExerciseWeights calls syncWeightsToCloud, initializeWeightsSync   *)
(* calls loadWeightsFromCloud, which is also taken as a call of its own.   *)
(* A call that reaches its fetch is suspended in reqs until its response   *)
(* arrives; lastCall.inner is what the called function returned.           *)

\* Requests in flight at once
MaxReqs == 2

CloudExercises == { "squat", "bench" }

\* The weights an exercise is given
WeightsOf(exercise) == IF exercise = "squat" THEN WeightValues ELSE { "80" }

\* The weights objects: newWeights arguments and weights fields of responses
WeightMaps ==
  UNION { { m \in [D -> WeightValues \cup { "80" }] : \A e \in D : m[e] \in WeightsOf(e) } :
          D \in SUBSET CloudExercises }

\* getExerciseWeights(), lines 339-341
getExerciseWeights(item) == getExerciseWeightsLocal(item)

\* A test of the user that lets every caller through
NotLoggedInNever(userEmail) == FALSE

\* getCurrentUserEmail() and the test !userEmail, lines 27-29, 36-37: null
\* and the empty string are both falsy
NotLoggedIn(userEmail) == userEmail = ""

\* fetch rejects
NetworkError == [ NoResponse EXCEPT !.kind = "neterr" ]

\* The bodies answered to saveWeights: the text, what JSON.parse makes of
\* it (an object, null, or a SyntaxError) and the object's status field
SaveBodies ==
  { <<"{\"status\":\"success\"}", "object", "success">>,
    <<"{\"status\":\"error\"}", "object", "error">>,
    <<"<html>success</html>", "SyntaxError", "">>,
    <<"<html>Error</html>", "SyntaxError", "">>,
    <<"null", "null", "">> }

\* The answers to saveWeights: no answer, a status that is not 2xx (its
\* body is not read), or a 2xx status with one of the bodies
SaveResponses ==
  { NetworkError } \cup
  { [ kind |-> "response", ok |-> FALSE, text |-> "<html>Error</html>",
      type |-> "SyntaxError", status |-> "", hasWeights |-> FALSE, weights |-> <<>> ] } \cup
  { [ kind |-> "response", ok |-> TRUE, text |-> b[1], type |-> b[2],
      status |-> b[3], hasWeights |-> FALSE, weights |-> <<>> ] : b \in SaveBodies }

\* The responses to getWeights, as response.json() gives them: a rejection
\* (SyntaxError), null, or an object with a status and possibly weights.
\* loadWeightsFromCloud reads neither response.ok nor the text.
LoadResponses ==
  { NetworkError } \cup
  { [ kind |-> "response", ok |-> TRUE, text |-> "", type |-> t,
      status |-> "", hasWeights |-> FALSE, weights |-> <<>> ] :
      t \in { "SyntaxError", "null" } } \cup
  { [ kind |-> "response", ok |-> TRUE, text |-> "", type |-> "object",
      status |-> st, hasWeights |-> FALSE, weights |-> <<>> ] :
      st \in { "success", "error" } } \cup
  { [ kind |-> "response", ok |-> TRUE, text |-> "", type |-> "object",
      status |-> "success", hasWeights |-> TRUE, weights |-> W ] :
      W \in WeightMaps }

\* syncWeightsToCloud from the fetch on, lines 59-100: what it returns and
\* whether it wrote the last-sync item.  stampWriteFails: setItem throws.
\* A TypeError on result.status (result null) and a SyntaxError are both
\* caught at line 86; a setItem that throws at line 81 is caught there too,
\* thrown again at line 91 and caught at line 96.
syncWeightsToCloudSettled(response, stampWriteFails) ==
  LET stamp == [ ret |-> IF stampWriteFails THEN "false" ELSE "true",
                 stamped |-> ~stampWriteFails ]
      fail  == [ ret |-> "false", stamped |-> FALSE ]
  IN  IF response.kind = "neterr" THEN fail
      ELSE IF ~response.ok THEN fail
      ELSE IF response.type = "object"
        THEN IF response.status = "success" THEN stamp ELSE fail
      ELSE IF Includes(response.text, "success") \/ response.ok THEN stamp
      ELSE fail

\* { ...localWeights, ...result.weights } with the spreads exchanged
spreadLocalLast(localWeights, cloudWeights) == ObjectAssign(cloudWeights, localWeights)

\* { ...localWeights, ...result.weights }, line 128
spread(localWeights, cloudWeights) == ObjectAssign(localWeights, cloudWeights)

\* loadWeightsFromCloud from the fetch on, lines 118-136: what it returns
\* and the weights item it leaves.  writeFails: setItem (line 129) throws.
loadWeightsFromCloudSettled(item, response, writeFails) ==
  LET null == [ ret |-> "null", value |-> <<>>, item |-> item ]
      mergedWeights == spread(getExerciseWeightsLocal(item), response.weights)
  IN  IF response.kind = "neterr" THEN null
      ELSE IF response.type # "object" THEN null
      ELSE IF response.status = "success" /\ response.hasWeights
        THEN IF writeFails THEN null
             ELSE [ ret |-> "object", value |-> mergedWeights,
                    item |-> JSONstringify(mergedWeights) ]
      ELSE null

InitWeights ==
  /\ NavInit /\ AjaxIdle /\ FavIdle
  /\ historyItem = AbsentItem /\ syncs = <<>> /\ added = 0
  /\ weightsItem \in { AbsentItem, CorruptItem }
  /\ loggedUser \in { "", UserEmail }
  /\ weightsSynced = FALSE
  /\ SyncIdle /\ ReadIdle /\ OverlayIdle /\ CloudIdle

\* The call returns without having fetched
Returned(fn, ret, inner, threw) ==
  [ fn |-> fn, ret |-> ret, inner |-> inner, value |-> <<>>, fetched |-> FALSE,
    stamped |-> FALSE, threw |-> threw, response |-> NoResponse ]

\* syncWeightsToCloud(weights) as far as its fetch, lines 35-62
SyncStart(fn, weights) ==
  IF NotLoggedIn(loggedUser)
    THEN /\ lastCall' = Returned(fn, "false", "false", FALSE)
         /\ reqs' = reqs
    ELSE /\ BagCardinality(reqs) < MaxReqs
         /\ reqs' = reqs (+) SetToBag({ [ fn |-> fn, action |-> "saveWeights",
                                          email |-> loggedUser, weights |-> weights ] })
         /\ lastCall' = lastCall

\* loadWeightsFromCloud() as far as its fetch, lines 107-118
LoadStart(fn) ==
  IF NotLoggedIn(loggedUser)
    THEN /\ lastCall' = Returned(fn, "null", "null", FALSE)
         /\ reqs' = reqs
    ELSE /\ BagCardinality(reqs) < MaxReqs
         /\ reqs' = reqs (+) SetToBag({ [ fn |-> fn, action |-> "getWeights",
                                          email |-> loggedUser, weights |-> <<>> ] })
         /\ lastCall' = lastCall

\* The argument of syncWeightsToCloud were it newWeights alone
SentNewWeights(weights, newWeights) == newWeights

\* syncWeightsToCloud(weights), line 365: the merged object is the argument
SentWeights(weights, newWeights) == weights

\* updateExerciseWeights(newWeights), lines 358-365, as far as the fetch of
\* the syncWeightsToCloud it calls.  writeFails: setItem (line 362) throws.
UpdateExerciseWeights(newWeights, writeFails) ==
  /\ LET weights == ObjectAssign(getExerciseWeights(weightsItem), newWeights)
     IN  IF writeFails
           THEN /\ lastCall' = Returned("updateExerciseWeights", "false", "", TRUE)
                /\ UNCHANGED <<weightsItem, reqs>>
           ELSE /\ weightsItem' = JSONstringify(weights)
                /\ SyncStart("updateExerciseWeights", SentWeights(weights, newWeights))
  /\ UNCHANGED <<historyItem, loggedUser, syncs, weightsSynced, added,
                 navVars, ajaxVars, favVars, readVars, overlayVars, cloudVars>>

\* loadWeightsFromCloud() called on its own
LoadWeightsFromCloud ==
  /\ LoadStart("loadWeightsFromCloud")
  /\ UNCHANGED <<historyItem, weightsItem, loggedUser, syncs, weightsSynced, added,
                 navVars, ajaxVars, favVars, readVars, overlayVars, cloudVars>>

\* initializeWeightsSync(), lines 143-152
InitializeWeightsSync ==
  /\ IF NotLoggedIn(loggedUser)
       THEN /\ lastCall' = Returned("initializeWeightsSync", "undefined", "", FALSE)
            /\ reqs' = reqs
       ELSE LoadStart("initializeWeightsSync")
  /\ UNCHANGED <<historyItem, weightsItem, loggedUser, syncs, weightsSynced, added,
                 navVars, ajaxVars, favVars, readVars, overlayVars, cloudVars>>

\* The response to a saveWeights request arrives and syncWeightsToCloud
\* runs to its return (lines 62-100); updateExerciseWeights returns what it
\* returned (line 365).  stampWriteFails is an input only where the code
\* reaches a setItem.
SaveSettle(req, response, stampWriteFails) ==
  /\ BagIn(req, reqs)
  /\ req.action = "saveWeights"
  /\ stampWriteFails => syncWeightsToCloudSettled(response, FALSE).stamped
  /\ LET r == syncWeightsToCloudSettled(response, stampWriteFails)
     IN  /\ weightsSynced' = (weightsSynced \/ r.stamped)
         /\ lastCall' = [ fn |-> req.fn, ret |-> r.ret, inner |-> r.ret,
                          value |-> <<>>, fetched |-> TRUE, stamped |-> r.stamped,
                          threw |-> stampWriteFails, response |-> response ]
  /\ reqs' = reqs (-) SetToBag({ req })
  /\ UNCHANGED <<historyItem, weightsItem, loggedUser, syncs, added,
                 navVars, ajaxVars, favVars, readVars, overlayVars, cloudVars>>

\* The response to a getWeights request arrives and loadWeightsFromCloud
\* runs to its return (lines 118-136); initializeWeightsSync then returns
\* nothing (line 151).  writeFails is an input only where the code reaches
\* the setItem.
LoadSettle(req, response, writeFails) ==
  /\ BagIn(req, reqs)
  /\ req.action = "getWeights"
  /\ writeFails => loadWeightsFromCloudSettled(weightsItem, response, FALSE).ret = "object"
  /\ LET r == loadWeightsFromCloudSettled(weightsItem, response, writeFails)
     IN  /\ weightsItem' = r.item
         /\ lastCall' = [ fn |-> req.fn,
                          ret |-> IF req.fn = "initializeWeightsSync"
                                    THEN "undefined" ELSE r.ret,
                          inner |-> r.ret, value |-> r.value, fetched |-> TRUE,
                          stamped |-> FALSE, threw |-> writeFails,
                          response |-> response ]
  /\ reqs' = reqs (-) SetToBag({ req })
  /\ UNCHANGED <<historyItem, loggedUser, syncs, weightsSynced, added,
                 navVars, ajaxVars, favVars, readVars, overlayVars, cloudVars>>

\* clearExerciseWeights(), lines 375-377
ClearExerciseWeights ==
  /\ weightsItem' = AbsentItem
  /\ UNCHANGED <<historyItem, loggedUser, syncs, weightsSynced, added,
                 navVars, ajaxVars, favVars, restVars>>

NextWeights ==
  \/ \E newWeights \in WeightMaps, writeFails \in BOOLEAN :
       UpdateExerciseWeights(newWeights, writeFails)
  \/ LoadWeightsFromCloud
  \/ InitializeWeightsSync
  \/ \E req \in BagToSet(reqs), response \in SaveResponses, stampWriteFails \in BOOLEAN :
       SaveSettle(req, response, stampWriteFails)
  \/ \E req \in BagToSet(reqs), response \in LoadResponses, writeFails \in BOOLEAN :
       LoadSettle(req, response, writeFails)
  \/ ClearExerciseWeights

SpecWeights == InitWeights /\ [][NextWeights]_vars


\* A step in which a call of fn that had fetched returns
Settles(fns) ==
  /\ BagCardinality(reqs') < BagCardinality(reqs)
  /\ lastCall'.fn \in fns
  /\ lastCall'.fetched

LoadCalls == { "loadWeightsFromCloud", "initializeWeightsSync" }

\* C11: for a logged-in user, when the getWeights response is an object with
\* status "success" and weights W, loadWeightsFromCloud returns and stores
\* the map M with M[k] = W[k] for every key of W and M[k] = local[k] for
\* every other key of the map stored locally when the response is
\* processed; if the store refuses the write it returns null and the stored
\* map stays as it was.
C11_LoadMerges ==
  [][ ( /\ Settles(LoadCalls)
        /\ lastCall'.response.type = "object"
        /\ lastCall'.response.status = "success"
        /\ lastCall'.response.hasWeights )
      => LET W     == lastCall'.response.weights
             local == getExerciseWeightsLocal(weightsItem)
             M     == lastCall'.value
         IN  IF lastCall'.threw
               THEN lastCall'.inner = "null" /\ weightsItem' = weightsItem
               ELSE /\ loggedUser # ""
                    /\ lastCall'.inner = "object"
                    /\ DOMAIN M = DOMAIN W \cup DOMAIN local
                    /\ \A k \in DOMAIN W : M[k] = W[k]
                    /\ \A k \in DOMAIN local \ DOMAIN W : M[k] = local[k]
                    /\ weightsItem' = JSONstringify(M) ]_vars

C11_Witness ==
  /\ lastCall.fn = "loadWeightsFromCloud"
  /\ lastCall.inner = "object"
  /\ lastCall.response.weights = [ e \in { "squat" } |-> "60" ]
  /\ lastCall.value = [ e \in CloudExercises |-> IF e = "squat" THEN "60" ELSE "80" ]
  /\ weightsItem = JSONstringify(lastCall.value)


\* The responses C12 counts as a failed sync: a network error, a status that
\* is not 2xx, a body that is not JSON and does not contain "success"
SyncFailure(response) ==
  \/ response.kind = "neterr"
  \/ ~response.ok
  \/ response.type = "SyntaxError" /\ ~Includes(response.text, "success")

\* C12: when the saveWeights request fails (network error, non-2xx status,
\* or a body that is not JSON and does not indicate success)
\* syncWeightsToCloud returns false, does not write the last-sync item and
\* leaves the stored weights as they were.
C12_SyncFailureReturnsFalse ==
  [][ ( Settles({ "updateExerciseWeights" }) /\ SyncFailure(lastCall'.response) )
      => /\ lastCall'.inner = "false"
         /\ ~lastCall'.stamped
         /\ weightsSynced' = weightsSynced
         /\ weightsItem' = weightsItem ]_vars


\* C13: while no user is stored under loggedUser no request is sent:
\* syncWeightsToCloud returns false, loadWeightsFromCloud returns null and
\* initializeWeightsSync returns, none of them fetching, writing the
\* last-sync item or changing the stored weights (the only write of a step
\* of updateExerciseWeights is its own, made before it calls
\* syncWeightsToCloud).
C13_NoFetchWhenLoggedOut ==
  [][ loggedUser = "" =>
        /\ reqs' = EmptyBag
        /\ weightsSynced' = weightsSynced
        /\ ~lastCall'.fetched /\ ~lastCall'.stamped
        /\ lastCall' # lastCall =>
             /\ lastCall'.fn \in { "updateExerciseWeights", "loadWeightsFromCloud",
                                   "initializeWeightsSync" }
             /\ (lastCall'.fn = "updateExerciseWeights" /\ ~lastCall'.threw) =>
                  /\ lastCall'.inner = "false"
                  /\ \E newWeights \in WeightMaps :
                       weightsItem' = JSONstringify(
                         ObjectAssign(getExerciseWeights(weightsItem), newWeights))
             /\ lastCall'.fn = "loadWeightsFromCloud" =>
                  lastCall'.inner = "null" /\ weightsItem' = weightsItem
             /\ lastCall'.fn = "initializeWeightsSync" =>
                  /\ lastCall'.ret = "undefined" /\ lastCall'.inner = ""
                  /\ weightsItem' = weightsItem ]_vars

C13_Witness ==
  /\ loggedUser = ""
  /\ lastCall.fn = "loadWeightsFromCloud"
  /\ lastCall.inner = "null"
  /\ ~lastCall.fetched
  /\ weightsItem = JSONstringify([ e \in { "squat" } |-> "50" ])
  /\ ~weightsSynced


\* C19: updateExerciseWeights(newWeights) stores the previous local map
\* overridden by newWeights and then sends that whole stored map to the
\* cloud; whatever the saveWeights request comes to (not logged in, network
\* error, non-2xx status, rejected), the stored map is not touched again;
\* and the call returns true only when syncWeightsToCloud returned true,
\* which it does for none of those outcomes.
C19_UpdatePersistsThenSyncs ==
  [][ /\ \A req \in BagToSet(reqs') :
           ( reqs' = reqs (+) SetToBag({ req }) /\ req.fn = "updateExerciseWeights" ) =>
           /\ \E newWeights \in WeightMaps :
                weightsItem' = JSONstringify(
                  ObjectAssign(getExerciseWeights(weightsItem), newWeights))
           /\ req.action = "saveWeights"
           /\ JSONstringify(req.weights) = weightsItem'
      /\ Settles({ "updateExerciseWeights" }) =>
           /\ weightsItem' = weightsItem
           /\ lastCall'.ret = lastCall'.inner
           /\ lastCall'.ret \in { "true", "false" }
           /\ ( \/ lastCall'.response.kind = "neterr"
                \/ ~lastCall'.response.ok
                \/ ( lastCall'.response.type = "object"
                     /\ lastCall'.response.status # "success" ) )
              => lastCall'.ret = "false"
      /\ ( lastCall' # lastCall /\ lastCall'.fn = "updateExerciseWeights"
           /\ ~lastCall'.fetched /\ ~lastCall'.threw ) =>
           /\ loggedUser = ""
           /\ lastCall'.ret = "false"
           /\ \E newWeights \in WeightMaps :
                weightsItem' = JSONstringify(
                  ObjectAssign(getExerciseWeights(weightsItem), newWeights)) ]_vars

C19_Witness ==
  /\ lastCall.fn = "updateExerciseWeights"
  /\ lastCall.fetched
  /\ lastCall.response.kind = "neterr"
  /\ lastCall.ret = "false"
  /\ reqs = SetToBag({ [ fn |-> "updateExerciseWeights", action |-> "saveWeights",
                          email |-> UserEmail,
                          weights |-> [ e \in CloudExercises |->
                                          IF e = "squat" THEN "60" ELSE "80" ] ] })
  /\ weightsItem.kind = "json"
  /\ weightsItem.val = [ e \in CloudExercises |-> IF e = "squat" THEN "60" ELSE "80" ]


---------------------------------------------------------------------------
(* part_001: the read accessors getWorkoutHistory, getFavorites and        *)
(* getExerciseWeights over a store that holds nothing, the empty string,   *)
(* text that is not JSON, or what the module wrote.                        *)

\* The item holds the empty string
EmptyItem == [kind |-> "empty", val |-> <<>>]

\* JSON.parse(text): a SyntaxError on text that is not JSON
JSONparse(item) == [ threw |-> item.kind = "corrupt", value |-> item.val ]

\* const v = localStorage.getItem(key); return v ? JSON.parse(v) : default
\* with no try around it.  denied: getItem itself throws.
readUncaught(item, denied) ==
  IF denied THEN [ threw |-> TRUE, value |-> <<>> ]
  ELSE IF item.kind \in { "absent", "empty" } THEN [ threw |-> FALSE, value |-> <<>> ]
  ELSE JSONparse(item)

\* The body shared by the three accessors, lines 163-169, 272-278, 326-332:
\* whatever is thrown is caught and the empty default returned
readOrDefault(item, denied) ==
  LET r == readUncaught(item, denied)
  IN  IF r.threw THEN [ threw |-> FALSE, value |-> <<>> ] ELSE r

StoredItems(values) ==
  { AbsentItem, EmptyItem, CorruptItem } \cup { JSONstringify(v) : v \in values }

InitReads ==
  /\ NavInit /\ AjaxIdle /\ SyncIdle /\ ReadIdle /\ OverlayIdle /\ CloudIdle
  /\ historyItem \in StoredItems({ <<>>, <<1>>, <<2, 1>> })
  /\ favoritesItem \in StoredItems(DistinctLists(WorkoutNames))
  /\ weightsItem \in StoredItems(WeightMaps)
  /\ lastToggle = NoToggle /\ prevToggle = NoToggle
  /\ loggedUser = "" /\ syncs = <<>> /\ weightsSynced = FALSE
  /\ added = 0

\* One of the accessors is called on the item it reads
ReadAccessor(fn, item, denied) ==
  /\ LET r == readOrDefault(item, denied)
     IN  lastRead' = [ fn |-> fn, threw |-> r.threw, value |-> r.value,
                       item |-> item, denied |-> denied ]
  /\ UNCHANGED <<navVars, ajaxVars, storeVars, syncVars, overlayVars, cloudVars>>

\* getWorkoutHistory(), lines 162-170
GetWorkoutHistory(denied) == ReadAccessor("getWorkoutHistory", historyItem, denied)

\* getFavorites(), lines 271-279
GetFavorites(denied) == ReadAccessor("getFavorites", favoritesItem, denied)

\* getExerciseWeights(), lines 339-341 and 325-333
GetExerciseWeights(denied) == ReadAccessor("getExerciseWeights", weightsItem, denied)

NextReads ==
  \/ \E denied \in BOOLEAN : GetWorkoutHistory(denied)
  \/ \E denied \in BOOLEAN : GetFavorites(denied)
  \/ \E denied \in BOOLEAN : GetExerciseWeights(denied)
  \/ ClearWorkoutHistory
  \/ ClearExerciseWeights

SpecReads == InitReads /\ [][NextReads]_vars

\* C15: getWorkoutHistory, getFavorites and getExerciseWeights never throw:
\* on a missing item or one that cannot be parsed they return the empty
\* default, on a stored value they return that value, and the call leaves
\* all three stored items as they were.
C15_ReadsDefault ==
  [][ lastRead' # lastRead =>
        /\ ~lastRead'.threw
        /\ lastRead'.item = ( CASE lastRead'.fn = "getWorkoutHistory" -> historyItem
                                [] lastRead'.fn = "getFavorites" -> favoritesItem
                                [] lastRead'.fn = "getExerciseWeights" -> weightsItem )
        /\ lastRead'.item.kind \in { "absent", "empty", "corrupt" } => lastRead'.value = <<>>
        /\ ( lastRead'.item.kind = "json" /\ ~lastRead'.denied ) =>
             lastRead'.value = lastRead'.item.val
        /\ lastRead'.fn = "getWorkoutHistory" /\ ~lastRead'.denied =>
             lastRead'.value = getWorkoutHistory(historyItem)
        /\ lastRead'.fn = "getFavorites" /\ ~lastRead'.denied =>
             lastRead'.value = getFavorites(favoritesItem)
        /\ lastRead'.fn = "getExerciseWeights" /\ ~lastRead'.denied =>
             lastRead'.value = getExerciseWeights(weightsItem)
        /\ UNCHANGED <<historyItem, favoritesItem, weightsItem>> ]_vars

C15_Witness ==
  /\ lastRead.fn = "getExerciseWeights"
  /\ lastRead.item = CorruptItem
  /\ lastRead.value = <<>>
  /\ ~lastRead.threw
  /\ weightsItem = CorruptItem
  /\ historyItem = AbsentItem


---------------------------------------------------------------------------
(* The order of the steps of one navigation.                               *)

\* The steps that are not the log of a script failure
NotWarn(step) == ~StartsWith(step, "warn:")

\* The steps of a replay of scripts, in document order
Replayed(scripts) == [ k \in 1..Len(scripts) |-> "script:" \o scripts[k] ]

\* The invocation whose response body this step has just processed
TextSettled(i) ==
  /\ i \in 1..Len(navs)
  /\ navs[i].pc = "text"
  /\ navs' = RemoveAt(navs, i)
  /\ last'.kind = "text"

\* C17: on the success path the steps come in this order, none skipped:
\* fetch, parse, replacement of title, body and body class, history push
\* (forward navigations only), replay of the inline scripts in document
\* order, dispatch of ajax-navigation-complete, DOMContentLoaded and load,
\* and then release of the lock; and the external script URLs taken from a
\* page never include the navigation script.
C17_StepOrder ==
  [][ ( last'.kind = "text" /\ last'.outcome = "complete" ) =>
        \E i \in 1..Len(navs) :
          /\ TextSettled(i)
          /\ LET nav   == navs[i]
                 page  == Site[UrlInfo[nav.url].page]
                 steps == last'.steps
                 n     == Len(steps)
                 first == IF nav.push THEN 4 ELSE 3
                 inline == SelectSeq(page.scripts, LAMBDA sc : sc.src = "")
             IN  /\ isNavigating /\ ~isNavigating'
                 /\ n >= first + 3
                 /\ steps[1] = "parse" /\ steps[2] = "swap"
                 /\ doc' = [ title |-> page.title, body |-> page.body,
                             bodyClass |-> page.bodyClass ]
                 /\ IF nav.push
                      THEN steps[3] = "pushState" /\ hist'[hidx'].url = nav.url
                      ELSE hist' = hist /\ hidx' = hidx
                 /\ \A k \in first..n : steps[k] # "pushState"
                 /\ SelectSeq(SubSeq(steps, first, n - 4), NotWarn)
                      = Replayed([ k \in 1..Len(inline) |-> inline[k].text ])
                 /\ SubSeq(steps, n - 3, n - 1)
                      = <<"signal:ajax-navigation-complete", "signal:DOMContentLoaded",
                          "signal:load">>
                 /\ steps[n] = "release"
                 /\ last'.locationSet = ""
          /\ \A u \in DOMAIN Site : \A k \in 1..Len(Parsed[u].externalScripts) :
               ~Includes(Parsed[u].externalScripts[k], "ajax-navigation.js") ]_vars

C17_Witness ==
  /\ last.kind = "text" /\ last.outcome = "complete"
  /\ last.steps = <<"parse", "swap", "pushState", "script:loadStats()",
                    "script:drawChart()", "signal:ajax-navigation-complete",
                    "signal:DOMContentLoaded", "signal:load", "release">>
  /\ doc.title = "Dashboard"
  /\ Parsed[IndexUrl].externalScripts = <<"js/viewport.js">>
  /\ ~isNavigating

\* C18: a failure while one inline script is replayed does not abort the
\* navigation: the remaining inline scripts are replayed in order and the
\* signals dispatched, and unless the reinitialisation itself raises
\* afterwards, the location is not set and the lock is released.
C18_ScriptFailureContinues ==
  [][ ( last'.kind = "text" /\ \E k \in 1..Len(last'.steps) : ~NotWarn(last'.steps[k]) ) =>
        \E i \in 1..Len(navs) :
          /\ TextSettled(i)
          /\ LET steps  == last'.steps
                 scripts == Parsed[UrlInfo[navs[i].url].page].scripts
                 IsScript(step) == StartsWith(step, "script:")
                 IsSignal(step) == StartsWith(step, "signal:")
             IN  /\ SelectSeq(steps, IsScript) = Replayed(scripts)
                 /\ SelectSeq(steps, IsSignal)
                      = <<"signal:ajax-navigation-complete", "signal:DOMContentLoaded",
                          "signal:load">>
                 /\ ~isNavigating'
                 /\ last'.outcome \in { "complete", "reinitthrew" }
                 /\ last'.outcome = "complete" =>
                      /\ last'.locationSet = ""
                      /\ pendingNav' = pendingNav
                      /\ steps[Len(steps)] = "release"
                      /\ \A k \in 1..Len(steps) : steps[k] # "fallback" ]_vars

C18_Witness ==
  /\ last.kind = "text" /\ last.outcome = "complete"
  /\ last.steps = <<"parse", "swap", "pushState", "script:loadStats()",
                    "warn:loadStats()", "script:drawChart()",
                    "signal:ajax-navigation-complete", "signal:DOMContentLoaded",
                    "signal:load", "release">>
  /\ last.locationSet = ""
  /\ ~isNavigating


\* C20: an accepted navigation that ends in the fallback (location set to
\* the href) has changed neither the document nor the history before it:
\* no attempt both swaps content or pushes an entry and falls back.
C20_FallbackLeavesPageUntouched ==
  [][ ( last'.kind \in { "fetch", "text" } /\ last'.locationSet # "" ) =>
        /\ ~last'.swapped
        /\ ~last'.pushed
        /\ doc' = doc ]_vars


---------------------------------------------------------------------------
(* part_000: the transition overlay.  The script runs once in every        *)
(* document of the application; a document that is left is either          *)
(* replaced by a freshly loaded one or kept by the browser and shown again *)
(* later (pageshow), or the navigation never commits.                      *)

\* Pending hide callbacks of one signal at once
MaxTimers == 2

\* classList.toggle in place of classList.add
showNavOverlayToggle(ov) ==
  IF ov.inserted THEN [ov EXCEPT !.active = ~ov.active] ELSE ov

\* window.showNavOverlay(), lines 40-45
showNavOverlay(ov) ==
  IF ov.inserted THEN [ov EXCEPT !.active = TRUE] ELSE ov

\* window.hideNavOverlay(), lines 48-53
hideNavOverlay(ov) ==
  IF ov.inserted THEN [ov EXCEPT !.active = FALSE] ELSE ov

\* The click listener, lines 56-83, on a click inside a link: TRUE when it
\* reaches showNavOverlay()
clickShows(href, targetBlank, download) ==
  ~ ( \/ href = ""
      \/ StartsWith(href, "http")
      \/ StartsWith(href, "#")
      \/ StartsWith(href, "javascript:")
      \/ targetBlank
      \/ download )

\* The submit listener, lines 86-91, on the form's resolved action
submitShows(action) == action # "" /\ ~StartsWith(action, "javascript:")

\* The wrappers of location.assign / location.replace, lines 100-114
assignShows(url) == url # "" /\ ~StartsWith(url, "#")

OverlayHrefs == { "", "pages/dashboard.html", "#top", "https://x.com/",
                  "javascript:void(0)", "mailto:coach@v.it" }

FormActions == { "https://v.it/index.html", "javascript:void(0)" }

AssignUrls == { "pages/dashboard.html", "#top" }

\* document.readyState when the script runs; "shown" : pageshow has fired
ReadyStates == { "loading", "interactive", "complete", "shown" }

\* The script has just run in a document that is in the given state, lines
\* 12-139: the element is inserted at once unless the document is loading
\* (lines 33-37).
ScriptRan(state) ==
  /\ overlay' = [inserted |-> state # "loading", active |-> FALSE]
  /\ readyState' = state
  /\ timers' = NoTimers
  /\ leaving' = FALSE

\* hideListeners is the browser's: assigning to the unforgeable
\* location.assign in strict code (line 100) throws where the property is
\* kept read-only, and the script then ends before the wrappers and the
\* hide listeners of lines 100-137 exist.
InitOverlay ==
  /\ NavInit /\ AjaxIdle /\ FavIdle /\ HistIdle /\ SyncIdle /\ ReadIdle /\ CloudIdle
  /\ readyState \in ReadyStates
  /\ overlay = [inserted |-> readyState # "loading", active |-> FALSE]
  /\ hideListeners \in BOOLEAN
  /\ timers = NoTimers
  /\ leaving = FALSE
  /\ lastOverlay = NoOverlayCall

OtherVars == <<navVars, ajaxVars, storeVars, syncVars, readVars, cloudVars>>

\* A call of showNavOverlay or hideNavOverlay is recorded
Called(op, via) ==
  lastOverlay' = [ op |-> op, via |-> via, before |-> overlay,
                   tick |-> 1 - lastOverlay.tick ]

\* The listener of a hide signal runs, lines 118-137: setTimeout(hide)
Signalled(signal) ==
  IF hideListeners
    THEN /\ timers[signal] < MaxTimers
         /\ timers' = [timers EXCEPT ![signal] = @ + 1]
    ELSE timers' = timers

\* DOMContentLoaded on the document: insertOverlay (lines 21-34) and the
\* listener of line 126
DOMContentLoaded ==
  /\ readyState = "loading"
  /\ readyState' = "interactive"
  /\ overlay' = [overlay EXCEPT !.inserted = TRUE]
  /\ Signalled("DOMContentLoaded")
  /\ UNCHANGED <<hideListeners, leaving, lastOverlay, OtherVars>>

\* load on the window, line 133
Load ==
  /\ readyState = "interactive"
  /\ readyState' = "complete"
  /\ Signalled("load")
  /\ UNCHANGED <<overlay, hideListeners, leaving, lastOverlay, OtherVars>>

\* pageshow on the window after the load, line 118
PageShow ==
  /\ readyState = "complete"
  /\ readyState' = "shown"
  /\ Signalled("pageshow")
  /\ UNCHANGED <<overlay, hideListeners, leaving, lastOverlay, OtherVars>>

\* A pending timer expires: window.hideNavOverlay(), lines 120-122,
\* 127-129, 134-136
TimerFire(signal) ==
  /\ timers[signal] > 0
  /\ timers' = [timers EXCEPT ![signal] = @ - 1]
  /\ overlay' = hideNavOverlay(overlay)
  /\ Called("hide", signal)
  /\ UNCHANGED <<readyState, hideListeners, leaving, OtherVars>>

\* A click inside a link, lines 56-83.  navigates: the browser starts a
\* navigation of this tab for it; it does not when a modifier key opens
\* another tab, when another listener prevents the default, or when the
\* link is handed to another application.
OverlayClick(href, targetBlank, download, navigates) ==
  /\ navigates => ~( href = "" \/ StartsWith(href, "#") \/ StartsWith(href, "javascript:")
                     \/ StartsWith(href, "mailto:") \/ targetBlank \/ download )
  /\ IF clickShows(href, targetBlank, download)
       THEN overlay' = showNavOverlay(overlay) /\ Called("show", "click")
       ELSE UNCHANGED <<overlay, lastOverlay>>
  /\ leaving' = (leaving \/ navigates)
  /\ UNCHANGED <<readyState, hideListeners, timers, OtherVars>>

\* A form is submitted, lines 86-91.  navigates: no listener prevents the
\* default and the action is not a javascript: URL.
OverlaySubmit(action, navigates) ==
  /\ navigates => ~StartsWith(action, "javascript:")
  /\ IF submitShows(action)
       THEN overlay' = showNavOverlay(overlay) /\ Called("show", "submit")
       ELSE UNCHANGED <<overlay, lastOverlay>>
  /\ leaving' = (leaving \/ navigates)
  /\ UNCHANGED <<readyState, hideListeners, timers, OtherVars>>

\* location.assign(url) or location.replace(url) is called, lines 100-114:
\* through the wrapper where it could be installed, then the original
LocationAssign(method, url) ==
  /\ IF hideListeners /\ assignShows(url)
       THEN overlay' = showNavOverlay(overlay) /\ Called("show", method)
       ELSE UNCHANGED <<overlay, lastOverlay>>
  /\ leaving' = (leaving \/ ~StartsWith(url, "#"))
  /\ UNCHANGED <<readyState, hideListeners, timers, OtherVars>>

\* window.showNavOverlay() called by a page script
ShowNavOverlay ==
  /\ overlay' = showNavOverlay(overlay)
  /\ Called("show", "direct")
  /\ UNCHANGED <<readyState, hideListeners, timers, leaving, OtherVars>>

\* window.hideNavOverlay() called by a page script
HideNavOverlay ==
  /\ overlay' = hideNavOverlay(overlay)
  /\ Called("hide", "direct")
  /\ UNCHANGED <<readyState, hideListeners, timers, leaving, OtherVars>>

\* ajax-navigation.js replaces document.body.innerHTML (line 177), which
\* takes the element out of the document, and dispatches load on the
\* window (line 137)
AjaxSwap ==
  /\ readyState # "loading"
  /\ overlay' = [overlay EXCEPT !.inserted = FALSE]
  /\ Signalled("load")
  /\ UNCHANGED <<readyState, hideListeners, leaving, lastOverlay, OtherVars>>

\* The navigation commits: a new document of the application is loaded
\* and the script runs in it
Commit(state) ==
  /\ leaving
  /\ ScriptRan(state)
  /\ UNCHANGED <<hideListeners, lastOverlay, OtherVars>>

\* The document was kept by the browser and is shown again: pageshow alone
Restore ==
  /\ leaving
  /\ readyState = "shown"
  /\ leaving' = FALSE
  /\ Signalled("pageshow")
  /\ UNCHANGED <<overlay, readyState, hideListeners, lastOverlay, OtherVars>>

\* The navigation does not commit: stopped, or answered by a download or
\* by a response without content
Abort ==
  /\ leaving
  /\ leaving' = FALSE
  /\ UNCHANGED <<overlay, readyState, hideListeners, timers, lastOverlay, OtherVars>>

TimerFires == \E signal \in HideSignals : TimerFire(signal)

Resolves == (\E state \in ReadyStates : Commit(state)) \/ Restore \/ Abort

NextOverlay ==
  \/ DOMContentLoaded
  \/ Load
  \/ PageShow
  \/ TimerFires
  \/ \E href \in OverlayHrefs, targetBlank, download, navigates \in BOOLEAN :
       OverlayClick(href, targetBlank, download, navigates)
  \/ \E action \in FormActions, navigates \in BOOLEAN : OverlaySubmit(action, navigates)
  \/ \E method \in { "assign", "replace" }, url \in AssignUrls : LocationAssign(method, url)
  \/ ShowNavOverlay
  \/ HideNavOverlay
  \/ AjaxSwap
  \/ Resolves

SpecOverlay == InitOverlay /\ [][NextOverlay]_vars

\* The event loop runs every expired timer, a loading document goes
\* through its lifecycle events, and a started navigation comes to an end
FairSpecOverlay ==
  /\ SpecOverlay
  /\ WF_vars(TimerFires)
  /\ WF_vars(DOMContentLoaded) /\ WF_vars(Load) /\ WF_vars(PageShow)
  /\ WF_vars(Resolves)


\* The orders in which the three hide callbacks can run
HideOrders ==
  { o \in [1..3 -> HideSignals] : \A a, b \in 1..3 : a # b => o[a] # o[b] }

\* The callback set by the listener of a signal, lines 120-122, 127-129,
\* 134-136
hideCallback(signal, ov) == hideNavOverlay(ov)

\* The overlay after the three callbacks have run in the order o
AfterCallbacks(o, ov) == hideCallback(o[3], hideCallback(o[2], hideCallback(o[1], ov)))

\* C16: showNavOverlay and hideNavOverlay are idempotent and total: a call
\* of show leaves an overlay that a second show does not change (active),
\* a call of hide one that a second hide does not change (inactive), so
\* after a hide callback the overlay is what the three callbacks give in
\* any order; with the element out of the document both calls change
\* nothing.
C16_ShowHideIdempotent ==
  [][ lastOverlay' # lastOverlay =>
        /\ lastOverlay'.before = overlay
        /\ lastOverlay'.op \in { "show", "hide" }
        /\ lastOverlay'.op = "show" =>
             /\ overlay' = showNavOverlay(overlay)
             /\ showNavOverlay(overlay') = overlay'
             /\ overlay.inserted => overlay'.active
        /\ lastOverlay'.op = "hide" =>
             /\ overlay' = hideNavOverlay(overlay)
             /\ hideNavOverlay(overlay') = overlay'
             /\ overlay.inserted => ~overlay'.active
        /\ lastOverlay'.via \in HideSignals =>
             \A o \in HideOrders : AfterCallbacks(o, overlay) = overlay'
        /\ ~overlay.inserted => overlay' = overlay ]_vars

C16_Witness ==
  /\ lastOverlay.op = "show"
  /\ lastOverlay.via = "click"
  /\ lastOverlay.before = [inserted |-> TRUE, active |-> TRUE]
  /\ overlay = [inserted |-> TRUE, active |-> TRUE]
  /\ timers["load"] = 1

\* C14: whenever the overlay becomes active it later becomes inactive
\* again, however it was shown (stated for the browsers in which the hide
\* listeners are installed).
C14_OverlayEventuallyHidden ==
  (hideListeners /\ overlay.inserted /\ overlay.active)
    ~> ~(overlay.inserted /\ overlay.active)


---------------------------------------------------------------------------
(* ajax-navigation.js: what becomes of a click that handleClick took over  *)

\* The document shows the page of URL u after a content swap (lines
\* 176-178), or a full navigation to u has been started
ShowsUrl(u) ==
  \/ last.swapped /\ doc = UrlInfo[u].doc
  \/ pendingNav.kind = "assign" /\ pendingNav.url = u

\* handleClick reached line 225 for a link whose href attribute resolves
\* to URL u
Suppressed(u) ==
  /\ last.kind = "click"
  /\ last.prevented
  /\ resolveUrl(location, last.clicked) = u

\* The document is being left: a full navigation or a reload has started
Leaving == pendingNav.kind # "none"

\* C22: every click that no modifier key and no target=_blank excludes and
\* whose default action handleClick prevents is followed, once the fetches
\* have settled, by a content swap for the link's URL or by a full
\* navigation to it, whatever other clicks and history traversals happen
\* (unless the document is left by another full navigation meanwhile).
C22_SuppressedClickIsShown ==
  \A u \in Urls : Suppressed(u) ~> (ShowsUrl(u) \/ Leaving)


---------------------------------------------------------------------------
(* part_001: updateExerciseWeights and loadWeightsFromCloud of a logged-in *)
(* user against the server's copy, every request and response succeeding.  *)
(* A request in reqs has been sent; the server takes it, acts on its copy   *)
(* (cloud) and sends a response, which waits in resps until the suspended  *)
(* call receives it.                                                       *)

\* The newWeights arguments of the calls
UpdateArgs == { m \in WeightMaps : Cardinality(DOMAIN m) = 1 }

\* Calls suspended at their fetch
InFlight == BagCardinality(reqs) + BagCardinality(resps)

\* The response the server sends to saveWeights
SaveOk ==
  [ NoResponse EXCEPT !.kind = "http", !.ok = TRUE, !.type = "object",
                      !.text = "{\"status\":\"success\"}", !.status = "success" ]

\* The response the server sends to getWeights when it stores weights W
LoadOk(W) ==
  [ NoResponse EXCEPT !.kind = "http", !.ok = TRUE, !.type = "object",
                      !.status = "success", !.hasWeights = TRUE, !.weights = W ]

InitCloud ==
  /\ NavInit /\ AjaxIdle /\ FavIdle
  /\ historyItem = AbsentItem /\ syncs = <<>> /\ added = 0
  /\ weightsItem = AbsentItem
  /\ loggedUser = UserEmail
  /\ weightsSynced = FALSE
  /\ SyncIdle /\ ReadIdle /\ OverlayIdle /\ CloudIdle

\* updateExerciseWeights(newWeights), lines 358-365, as far as the fetch of
\* syncWeightsToCloud (line 60)
UpdateCall(newWeights) ==
  /\ InFlight < MaxReqs
  /\ LET weights == ObjectAssign(getExerciseWeights(weightsItem), newWeights)
     IN  /\ weightsItem' = JSONstringify(weights)
         /\ SyncStart("updateExerciseWeights", SentWeights(weights, newWeights))
  /\ latest' = ObjectAssign(latest, newWeights)
  /\ UNCHANGED <<cloud, resps, historyItem, loggedUser, syncs, weightsSynced, added,
                 navVars, ajaxVars, favVars, readVars, overlayVars>>

\* loadWeightsFromCloud(), lines 107-118, as far as its fetch
LoadCall ==
  /\ InFlight < MaxReqs
  /\ LoadStart("loadWeightsFromCloud")
  /\ UNCHANGED <<cloudVars, historyItem, weightsItem, loggedUser, syncs, weightsSynced,
                 added, navVars, ajaxVars, favVars, readVars, overlayVars>>

\* The server takes a request: saveWeights stores the weights sent for the
\* user, getWeights reads what is stored; the response is on its way
Serve(req) ==
  /\ BagIn(req, reqs)
  /\ reqs' = reqs (-) SetToBag({ req })
  /\ cloud' = IF req.action = "saveWeights" THEN req.weights ELSE cloud
  /\ resps' = resps (+) SetToBag({ [ req |-> req,
                                     response |-> IF req.action = "saveWeights"
                                                    THEN SaveOk ELSE LoadOk(cloud) ] })
  /\ UNCHANGED <<lastCall, latest, histVars, navVars, ajaxVars, favVars, readVars,
                 overlayVars>>

\* A response arrives: syncWeightsToCloud runs to its return (lines 62-100)
\* and updateExerciseWeights returns its value, or loadWeightsFromCloud
\* runs to its return (lines 118-136)
Receive(rsp) ==
  /\ BagIn(rsp, resps)
  /\ resps' = resps (-) SetToBag({ rsp })
  /\ IF rsp.req.action = "saveWeights"
       THEN LET r == syncWeightsToCloudSettled(rsp.response, FALSE)
            IN  /\ weightsSynced' = (weightsSynced \/ r.stamped)
                /\ weightsItem' = weightsItem
                /\ lastCall' = [ fn |-> rsp.req.fn, ret |-> r.ret, inner |-> r.ret,
                                 value |-> <<>>, fetched |-> TRUE,
                                 stamped |-> r.stamped, threw |-> FALSE,
                                 response |-> rsp.response ]
       ELSE LET r == loadWeightsFromCloudSettled(weightsItem, rsp.response, FALSE)
            IN  /\ weightsItem' = r.item
                /\ weightsSynced' = weightsSynced
                /\ lastCall' = [ fn |-> rsp.req.fn, ret |-> r.ret, inner |-> r.ret,
                                 value |-> r.value, fetched |-> TRUE,
                                 stamped |-> FALSE, threw |-> FALSE,
                                 response |-> rsp.response ]
  /\ UNCHANGED <<reqs, cloud, latest, historyItem, loggedUser, syncs, added,
                 navVars, ajaxVars, favVars, readVars, overlayVars>>

NextCloud ==
  \/ \E newWeights \in UpdateArgs : UpdateCall(newWeights)
  \/ LoadCall
  \/ \E req \in BagToSet(reqs) : Serve(req)
  \/ \E rsp \in BagToSet(resps) : Receive(rsp)

SpecCloud == InitCloud /\ [][NextCloud]_vars

\* Every call has returned
AllCompleted == reqs = EmptyBag /\ resps = EmptyBag

\* C21: for a logged-in user, whenever every updateExerciseWeights and
\* loadWeightsFromCloud call has completed, all requests having succeeded,
\* the stored weights object equals the server's and gives each exercise
\* the weight of the latest updateExerciseWeights call for it.
C21_LocalAndCloudConverge ==
  AllCompleted =>
    LET localWeights == getExerciseWeightsLocal(weightsItem)
    IN  /\ localWeights = cloud
        /\ \A e \in DOMAIN latest :
             e \in DOMAIN localWeights /\ localWeights[e] = latest[e]

=============================================================================
